---- MODULE Spec2Model ----
(***************************************************************************)
(* The plugin package initializer of kicad-collab, src/plugin/__init__.py, *)
(* as the state machine the Python import system runs: the host imports    *)
(* (or reloads) the module, the interpreter executes the statements of the *)
(* module body one after the other in the module's namespace, and the host *)
(* then reads the metadata attributes.                                     *)
(*                                                                         *)
(* A string value is a sequence of units: for the literals of lines 11 and *)
(* 12 a unit is one character, for the docstring a unit is one line.       *)
(***************************************************************************)
EXTENDS Integers, Sequences, FiniteSets, TLC

\* ---------------------------------------------------------------- bounds
\* Attribute reads the host's log keeps.
MaxReads == 2
\* Loads (the first import and the reloads after it) of one run.
MaxLoads == 3

\* ------------------------------------------------------- the module text
\* Lines 1-9: the module docstring, line by line ("" is an empty line; the
\* last "" is what follows the final newline before the closing quotes).
DocLiteral ==
  << "KiCad Collab Plugin.",
     "",
     "This plugin generates interactive snapshots of KiCad schematics",
     "for collaborative review via web browser.",
     "",
     "Usage:",
     "    Install via KiCad Plugin Manager or clone to KiCad plugins directory.",
     "    Access via Tools > KiCad Collab > Generate Snapshot",
     "" >>

VersionLiteral_TwoParts == << "0", ".", "1" >>
VersionLiteral_Bumped == << "0", ".", "1", ".", "1" >>

\* Line 11: "0.1.0"
VersionLiteral == << "0", ".", "1", ".", "0" >>

AuthorLiteral_Blank == << >>

\* Line 12: "KiCad Collab Contributors"
AuthorLiteral ==
  << "K", "i", "C", "a", "d", " ",
     "C", "o", "l", "l", "a", "b", " ",
     "C", "o", "n", "t", "r", "i", "b", "u", "t", "o", "r", "s" >>

\* An expression of the module body: a string literal, a reference to a name,
\* or a call of a host facility (none occurs in the module; the interpreter
\* below still gives each its Python meaning).
Lit(text) == [e |-> "lit", text |-> text, id |-> ""]
Name(id)  == [e |-> "name", text |-> << >>, id |-> id]
Call(id)  == [e |-> "call", text |-> << >>, id |-> id]

\* A statement: the docstring expression statement, an assignment to a
\* global, or a def/class statement.
DocStmt(text)        == [op |-> "doc", target |-> "__doc__", expr |-> Lit(text)]
Assign(target, expr) == [op |-> "assign", target |-> target, expr |-> expr]
Def(target)          == [op |-> "def", target |-> target, expr |-> Lit(<< >>)]

\* __author__ taken from a name the module never binds.
ModuleBody_UnboundName ==
  << DocStmt(DocLiteral),
     Assign("__version__", Lit(VersionLiteral)),
     Assign("__author__", Name("__maintainer__")) >>

\* __version__ bound a second time, to something else.
ModuleBody_Rebinds ==
  << DocStmt(DocLiteral),
     Assign("__version__", Lit(VersionLiteral)),
     Assign("__author__", Lit(AuthorLiteral)),
     Assign("__version__", Lit(<< "0", ".", "2", ".", "0" >>)) >>

\* The body opens a file while it is loaded.
ModuleBody_OpensFile ==
  << DocStmt(DocLiteral),
     Assign("__version__", Lit(VersionLiteral)),
     Assign("__author__", Call("file")) >>

\* The body defines the entry point itself.
ModuleBody_DefinesFunction ==
  << DocStmt(DocLiteral),
     Assign("__version__", Lit(VersionLiteral)),
     Assign("__author__", Lit(AuthorLiteral)),
     Def("generate_snapshot") >>

\* The module body, statement by statement.
ModuleBody ==
  << DocStmt(DocLiteral),
     Assign("__version__", Lit(VersionLiteral)),
     Assign("__author__", Lit(AuthorLiteral)) >>

\* -------------------------------------------------------------- the host
\* What a process can hold besides memory.
Resources == {"file", "thread", "socket"}
\* The attributes the host's plugin manager reads.
Metadata == {"__version__", "__author__"}

VARIABLES
  state,      \* "unloaded", "loading", "loaded" or "error" (the import raised)
  pc,         \* the index in ModuleBody of the next statement to execute
  ns,         \* the module's namespace: name -> value, for the bound names
  binds,      \* name -> times the current load has bound it
  loads,      \* loads started so far
  prev,       \* the namespace the previous load ended with (<< >> if none)
  reads,      \* the host's log of attribute reads, oldest first
  resources   \* the resources the host process holds

vars == << state, pc, ns, binds, loads, prev, reads, resources >>

Empty == [n \in {} |-> 0]

Str(text) == [type |-> "str", text |-> text]
Function(id) == [type |-> "function", text |-> << id >>]
Error(id) == [type |-> "error", text |-> << id >>]

\* The value of an expression in a namespace, or the error it raises.
Eval(expr, names) ==
  CASE expr.e = "lit"  -> [ok |-> TRUE, val |-> Str(expr.text)]
    [] expr.e = "name" -> IF expr.id \in DOMAIN names
                            THEN [ok |-> TRUE, val |-> names[expr.id]]
                            ELSE [ok |-> FALSE, val |-> Error("NameError")]
    [] expr.e = "call" -> [ok |-> TRUE, val |-> Str(<< >>)]

\* The resources an expression acquires when evaluated.
Effects(expr) ==
  IF expr.e = "call" /\ expr.id \in Resources THEN {expr.id} ELSE {}

\* The value a statement binds its target to.
Bound(stmt, names) ==
  IF stmt.op = "def"
    THEN [ok |-> TRUE, val |-> Function(stmt.target)]
    ELSE Eval(stmt.expr, names)

Bind(names, n, v) == [m \in DOMAIN names \cup {n} |-> IF m = n THEN v ELSE names[m]]
Count(b, n) == IF n \in DOMAIN b THEN b[n] ELSE 0

Init ==
  /\ state = "unloaded"
  /\ pc = 1
  /\ ns = Empty
  /\ binds = Empty
  /\ loads = 0
  /\ prev = Empty
  /\ reads = << >>
  /\ resources \in SUBSET Resources

\* import plugin: a new module object with an empty namespace, then the body.
Import ==
  /\ state = "unloaded"
  /\ state' = "loading"
  /\ pc' = 1
  /\ ns' = Empty
  /\ binds' = Empty
  /\ loads' = loads + 1
  /\ UNCHANGED << prev, reads, resources >>

\* importlib.reload(plugin): the body again, in the namespace as it is.
Reload ==
  /\ state = "loaded"
  /\ loads < MaxLoads
  /\ state' = "loading"
  /\ pc' = 1
  /\ prev' = ns
  /\ binds' = Empty
  /\ loads' = loads + 1
  /\ UNCHANGED << ns, reads, resources >>

\* The interpreter executes the next statement of the module body.
ExecStmt ==
  /\ state = "loading"
  /\ LET stmt == ModuleBody[pc]
         r    == Bound(stmt, ns)
     IN  /\ resources' = resources \cup Effects(stmt.expr)
         /\ IF r.ok
              THEN /\ ns' = Bind(ns, stmt.target, r.val)
                   /\ binds' = Bind(binds, stmt.target, Count(binds, stmt.target) + 1)
                   /\ pc' = pc + 1
                   /\ state' = IF pc = Len(ModuleBody) THEN "loaded" ELSE "loading"
              ELSE /\ state' = "error"
                   /\ UNCHANGED << pc, ns, binds >>
  /\ UNCHANGED << loads, prev, reads >>

\* The host's plugin manager reads plugin.<n>.
Read(n) ==
  /\ state = "loaded"
  /\ Len(reads) < MaxReads
  /\ reads' = Append(reads, [name |-> n, load |-> loads,
                               val |-> IF n \in DOMAIN ns
                                         THEN ns[n]
                                         ELSE Error("AttributeError")])
  /\ UNCHANGED << state, pc, ns, binds, loads, prev, resources >>

\* The host itself opens or closes a resource.
HostToggle(r) ==
  /\ resources' = IF r \in resources THEN resources \ {r} ELSE resources \cup {r}
  /\ UNCHANGED << state, pc, ns, binds, loads, prev, reads >>

Next ==
  \/ Import
  \/ Reload
  \/ ExecStmt
  \/ \E n \in Metadata : Read(n)
  \/ \E r \in Resources : HostToggle(r)

Spec == Init /\ [][Next]_vars

\* The interpreter runs a started module body to its end.
FairSpec == Spec /\ WF_vars(ExecStmt)

\* ------------------------------------------------------------ properties
ModuleNames == {"__doc__", "__version__", "__author__"}
Digits == {"0", "1", "2", "3", "4", "5", "6", "7", "8", "9"}

\* s cut at every occurrence of sep, as str.split(sep) cuts it.
RECURSIVE Split(_, _)
Split(s, sep) ==
  IF \A i \in 1..Len(s) : s[i] # sep
    THEN << s >>
    ELSE LET k == CHOOSE i \in 1..Len(s) :
                    s[i] = sep /\ \A j \in 1..(i - 1) : s[j] # sep
         IN  << SubSeq(s, 1, k - 1) >> \o Split(SubSeq(s, k + 1, Len(s)), sep)

IsNumber(c) == Len(c) > 0 /\ \A i \in 1..Len(c) : c[i] \in Digits
IsSemVer(v) ==
  /\ v.type = "str"
  /\ LET parts == Split(v.text, ".")
     IN  Len(parts) = 3 /\ \A i \in 1..Len(parts) : IsNumber(parts[i])

\* A load has completed: the module is loaded, or being reloaded.
AfterLoad == state = "loaded" \/ (state = "loading" /\ loads >= 2)

\* C1: once the module has been loaded, __version__ is a string of exactly
\* three dot-separated components, each a non-empty run of decimal digits.
C1_VersionIsSemVer ==
  AfterLoad => "__version__" \in DOMAIN ns /\ IsSemVer(ns["__version__"])

C1_Witness ==
  /\ state = "loaded"
  /\ "__version__" \in DOMAIN ns
  /\ Len(Split(ns["__version__"].text, ".")) = 3

\* C2: once the module has been loaded, __author__ is a non-empty string.
C2_AuthorNonEmpty ==
  AfterLoad => /\ "__author__" \in DOMAIN ns
               /\ ns["__author__"].type = "str"
               /\ Len(ns["__author__"].text) > 0

C2_Witness ==
  /\ state = "loaded"
  /\ "__author__" \in DOMAIN ns
  /\ Len(ns["__author__"].text) = 25

\* C3: a load never raises (the error state is unreachable), every started
\* load ends in the loaded state, and in the loaded state both __version__
\* and __author__ are bound.
C3_LoadSucceeds ==
  /\ [](state # "error")
  /\ [](state = "loaded" => Metadata \subseteq DOMAIN ns)
  /\ (state = "loading" ~> state = "loaded")

C3_Witness ==
  /\ state = "loaded"
  /\ loads = 1
  /\ Metadata \subseteq DOMAIN ns

\* C5: each load binds __version__ and __author__ exactly once; a bound
\* attribute never changes its value or becomes unbound afterwards (whatever
\* the host reads, and across reloads), so every read in the host's log is
\* the value the attribute still has.
C5_Immutable ==
  /\ [](state = "loaded" => \A n \in Metadata : Count(binds, n) = 1)
  /\ [](\A i \in 1..Len(reads) :
          reads[i].name \in DOMAIN ns /\ reads[i].val = ns[reads[i].name])
  /\ [][\A n \in Metadata :
          n \in DOMAIN ns => n \in DOMAIN ns' /\ ns'[n] = ns[n]]_vars

C5_Witness ==
  /\ state = "loaded"
  /\ loads >= 2
  /\ Len(reads) >= 2
  /\ reads[1].load < loads
  /\ reads[1].name # reads[2].name

\* A step of the load operation: Import, Reload or ExecStmt.
LoadStep == state' # state \/ pc' # pc
\* The names whose binding a step changes.
Rebound ==
  {n \in DOMAIN ns \cup DOMAIN ns' :
     ~(n \in DOMAIN ns /\ n \in DOMAIN ns' /\ ns'[n] = ns[n])}

\* C6: a step of the load changes nothing but the bindings of __doc__,
\* __version__ and __author__ in the module's namespace: the resources the
\* host process holds and the host's own state stay as they are.
C6_LoadFrame ==
  [][LoadStep => /\ resources' = resources
                 /\ reads' = reads
                 /\ Rebound \subseteq ModuleNames]_vars

C6_Witness ==
  /\ state = "loaded"
  /\ resources = {"file", "thread"}
  /\ Len(reads) = 1

\* C7: after a load the names the module has bound are exactly __doc__,
\* __version__ and __author__, each to a string; no function or class.
C7_OnlyThreeNames ==
  /\ (state = "loaded" => DOMAIN ns = ModuleNames)
  /\ DOMAIN ns \subseteq ModuleNames
  /\ \A n \in DOMAIN ns : ns[n].type = "str"

C7_Witness ==
  /\ state = "loaded"
  /\ Cardinality(DOMAIN ns) = 3

\* C8: every load, the first import or a reload, whatever the host holds and
\* has read, ends with __version__ = "0.1.0" and __author__ = "KiCad Collab
\* Contributors", and with the namespace the load before it ended with.
C8_LoadDeterministic ==
  state = "loaded" =>
    /\ Metadata \subseteq DOMAIN ns
    /\ ns["__version__"] = [type |-> "str", text |-> << "0", ".", "1", ".", "0" >>]
    /\ ns["__author__"] =
         [type |-> "str",
          text |-> << "K", "i", "C", "a", "d", " ", "C", "o", "l", "l", "a",
                      "b", " ", "C", "o", "n", "t", "r", "i", "b", "u", "t",
                      "o", "r", "s" >>]
    /\ (loads >= 2 => ns = prev)

C8_Witness ==
  /\ state = "loaded"
  /\ loads = MaxLoads
  /\ prev # Empty
  /\ resources = Resources
  /\ reads # << >>

====
